---- MODULE Spec2Model ----
(***************************************************************************)
(* A model of the Tiler class (src/unnamed/part_000): its four             *)
(* configuration fields, the overloaded accessors, getTiles and the static *)
(* isNearNullIsland.                                                       *)
(*                                                                         *)
(* Numbers.  The code computes in IEEE doubles; the model computes in      *)
(* exact integers and rationals.  A projection's scale s enters the code   *)
(* only as s*PI (line 138) and through geoScaleToZoom(s, tileSize); the    *)
(* model names a projection by w = 2*PI*s, the width of the world in       *)
(* pixels at that scale, an even integer, so that s*PI = w/2 and           *)
(* 2^zFrac = w/tileSize.  A fractional zoom zFrac is carried as the        *)
(* reduced fraction num/den with zFrac = log2(num/den).                    *)
(* The geographic extent of a tile (lines 172-174, 180) needs the inverse  *)
(* Mercator projection and is left out of the tile records.                *)
(***************************************************************************)
EXTENDS Integers, Sequences, FiniteSets, TLC

VARIABLES
    _tileSize,          \* Tiler._tileSize
    _zoomRange,         \* Tiler._zoomRange, <<min, max>>
    _margin,            \* Tiler._margin
    _skipNullIsland,    \* Tiler._skipNullIsland
    projection,         \* the projection handed to the last getTiles call
    result,             \* the outcome of the last getTiles call: the tiles or the error
    repeat,             \* the last getTiles call repeated the call made just before it
    before,             \* when repeat: the outcome of the call it repeated
    op,                 \* name of the last call
    arg,                \* argument of the last call
    ret                 \* value returned by the last accessor or static call

vars == <<_tileSize, _zoomRange, _margin, _skipNullIsland,
          projection, result, repeat, before, op, arg, ret>>

config == <<_tileSize, _zoomRange, _margin, _skipNullIsland>>

\* ---------------------------------------------------------------- bounds

\* margins passed to the setter are -1 .. MaxMargin
MaxMargin == 1
\* whole-world projections are drawn for the zooms 0 .. MaxWorldZoom
MaxWorldZoom == 2
\* isNearNullIsland is called for the zooms 0 .. NullIslandZoom + MaxDeeper
MaxDeeper == 2

\* ------------------------------------------------------- program constants

DefaultTileSize == 256
DocTileSize == 512
DefaultMaxZoom == 24
NullIslandZoom == 7

\* ---------------------------------------------------------------- helpers

RECURSIVE Pow2(_)
Pow2(n) == IF n <= 0 THEN 1 ELSE 2 * Pow2(n - 1)

RECURSIVE Gcd(_, _)
Gcd(a, b) == IF b = 0 THEN a ELSE Gcd(b, a % b)

Max2(a, b) == IF a >= b THEN a ELSE b
Min2(a, b) == IF a <= b THEN a ELSE b

clamp_noUpper(num, min, max) == Max2(min, num)

\* function clamp(num, min, max)
clamp(num, min, max) == Max2(min, Min2(num, max))

\* range(start, end) raises RangeError when Array() is handed a negative length
rangeThrows(start, end) == 1 + end - start < 0

range_short(start, end) == [i \in 1..(end - start) |-> start + i - 1]

\* function range(start, end), for a length that Array() accepts
range(start, end) == [i \in 1..(1 + end - start) |-> start + i - 1]

\* geoScaleToZoom(scale, tileSize) = log2(scale * 2PI / tileSize) = log2(w / tileSize),
\* as the reduced fraction whose log2 it is
geoScaleToZoom(w, tileSize) ==
    LET g == Gcd(w, tileSize)
    IN  [num |-> w \div g, den |-> tileSize \div g]

\* floor(log2(num / den))
RECURSIVE FloorLog2(_, _, _)
FloorLog2(num, den, f) ==
    IF f >= 0
    THEN IF den * Pow2(f + 1) <= num THEN FloorLog2(num, den, f + 1) ELSE f
    ELSE IF num * Pow2(-f) >= den THEN f ELSE FloorLog2(num, den, f - 1)

MathFloor(zFrac) ==
    FloorLog2(zFrac.num, zFrac.den, IF zFrac.num >= zFrac.den THEN 0 ELSE -1)

MathRound_floor(zFrac) == MathFloor(zFrac)

\* Math.round(zFrac): floor(zFrac + 0.5); the fractional part of log2(num/den) is
\* at least one half exactly when (num / (den * 2^f))^2 >= 2
MathRound(zFrac) ==
    LET f == MathFloor(zFrac)
        n == IF f >= 0 THEN zFrac.num ELSE zFrac.num * Pow2(-f)
        d == IF f >= 0 THEN zFrac.den * Pow2(f) ELSE zFrac.den
    IN  IF n * n >= 2 * d * d THEN f + 1 ELSE f

\* new Extent(min, max): the box with the two corners, normalised
Extent(a, b) ==
    << <<Min2(a[1], b[1]), Min2(a[2], b[2])>>, <<Max2(a[1], b[1]), Max2(a[2], b[2])>> >>

\* Extent.intersects(other): the boxes overlap or touch on both axes
intersects(e, o) ==
    /\ o[1][1] <= e[2][1]
    /\ o[1][2] <= e[2][2]
    /\ o[2][1] >= e[1][1]
    /\ o[2][2] >= e[1][2]

isNearNullIsland_wide(x, y, z) ==
    IF z >= NullIslandZoom
    THEN LET center == Pow2(z - 1)
             width == Pow2(z - 6)
             min == center - width \div 2
             max == center + width \div 2
         IN  x >= min /\ x <= max /\ y >= min /\ y <= max
    ELSE FALSE

\* static isNearNullIsland(x, y, z)
isNearNullIsland(x, y, z) ==
    IF z >= NullIslandZoom
    THEN LET center == Pow2(z - 1)
             width == Pow2(z - 6)
             min == center - width \div 2
             max == center + width \div 2 - 1
         IN  x >= min /\ x <= max /\ y >= min /\ y <= max
    ELSE FALSE

\* ---------------------------------------------------------------- getTiles

\* const z = clamp(Math.round(zFrac), this._zoomRange[0], this._zoomRange[1])
zoomOf(w, tileSize, zoomRng) ==
    clamp(MathRound(geoScaleToZoom(w, tileSize)), zoomRng[1], zoomRng[2])

\* const k = Math.pow(2, zFrac - z + log2ts) = 2^zFrac * tileSize / 2^z, as a fraction
kOf(zFrac, z, tileSize) ==
    [num |-> zFrac.num * tileSize, den |-> zFrac.den * Pow2(z)]

\* Math.floor(v / k)
floorOver(v, k) == (v * k.den) \div k.num

\* viewMin and viewMax: origin = scale * PI - translate, plus the dimensions
viewMinOf(p) ==
    << p.w \div 2 - p.translate[1] + p.dimensions[1][1],
       p.w \div 2 - p.translate[2] + p.dimensions[1][2] >>

viewMaxOf(p) ==
    << p.w \div 2 - p.translate[1] + p.dimensions[2][1],
       p.w \div 2 - p.translate[2] + p.dimensions[2][2] >>

loBound_plus(v, k, marginVal, maxTile) == clamp(floorOver(v, k) + marginVal, 0, maxTile)

\* first argument of range(): clamp(Math.floor(viewMin / k) - margin, minTile, maxTile)
loBound(v, k, marginVal, maxTile) == clamp(floorOver(v, k) - marginVal, 0, maxTile)

\* second argument of range(): clamp(Math.floor(viewMax / k) + margin, minTile, maxTile)
hiBound(v, k, marginVal, maxTile) == clamp(floorOver(v, k) + marginVal, 0, maxTile)

\* Number.prototype.toString of a non-negative integer: its decimal digits
RECURSIVE numberToString(_)
numberToString(n) ==
    LET digit == <<"0", "1", "2", "3", "4", "5", "6", "7", "8", "9">>[(n % 10) + 1]
    IN  IF n < 10 THEN digit ELSE numberToString(n \div 10) \o digit

\* Array.prototype.toString of the xyz triple: the elements' strings joined by commas
xyzToString(xyz) ==
    numberToString(xyz[1]) \o "," \o numberToString(xyz[2]) \o "," \o numberToString(xyz[3])

tileAt_zxy(x, y, z, tileSize, viewExtent) ==
    LET tileMin == <<x * tileSize, y * tileSize>>
        tileMax == <<(x + 1) * tileSize, (y + 1) * tileSize>>
    IN  [ id |-> xyzToString(<<z, x, y>>),
          xyz |-> <<x, y, z>>,
          pxExtent |-> Extent(tileMin, tileMax),
          isVisible |-> intersects(viewExtent, Extent(tileMin, tileMax)) ]

\* the tile descriptor built in the loop body
tileAt(x, y, z, tileSize, viewExtent) ==
    LET tileMin == <<x * tileSize, y * tileSize>>
        tileMax == <<(x + 1) * tileSize, (y + 1) * tileSize>>
    IN  [ id |-> xyzToString(<<x, y, z>>),
          xyz |-> <<x, y, z>>,
          pxExtent |-> Extent(tileMin, tileMax),
          isVisible |-> intersects(viewExtent, Extent(tileMin, tileMax)) ]

visit_push(tiles, x, y, z, tileSize, skip, viewExtent) ==
    IF skip /\ isNearNullIsland(x, y, z)
    THEN tiles
    ELSE Append(tiles, tileAt(x, y, z, tileSize, viewExtent))

visit_keep(tiles, x, y, z, tileSize, skip, viewExtent) ==
    LET tile == tileAt(x, y, z, tileSize, viewExtent)
    IN  IF tile.isVisible THEN <<tile>> \o tiles ELSE Append(tiles, tile)

\* one pass of the loop body: skip near null island, else unshift or push
visit(tiles, x, y, z, tileSize, skip, viewExtent) ==
    IF skip /\ isNearNullIsland(x, y, z)
    THEN tiles
    ELSE LET tile == tileAt(x, y, z, tileSize, viewExtent)
         IN  IF tile.isVisible THEN <<tile>> \o tiles ELSE Append(tiles, tile)

\* the inner loop, for (let j = 0; j < cols.length; j++), in the row y
\* (Len(next) >= 0 always holds: it makes TLC build the list pass by pass)
RECURSIVE colsLoop(_, _, _, _, _, _, _, _)
colsLoop(tiles, j, y, cols, z, tileSize, skip, viewExtent) ==
    IF j >= Len(cols)
    THEN tiles
    ELSE LET next == visit(tiles, cols[j + 1], y, z, tileSize, skip, viewExtent)
         IN  IF Len(next) >= 0
             THEN colsLoop(next, j + 1, y, cols, z, tileSize, skip, viewExtent)
             ELSE next

\* the outer loop, for (let i = 0; i < rows.length; i++)
RECURSIVE rowsLoop(_, _, _, _, _, _, _, _)
rowsLoop(tiles, i, rows, cols, z, tileSize, skip, viewExtent) ==
    IF i >= Len(rows)
    THEN tiles
    ELSE LET next == colsLoop(tiles, 0, rows[i + 1], cols, z, tileSize, skip, viewExtent)
         IN  IF Len(next) >= 0
             THEN rowsLoop(next, i + 1, rows, cols, z, tileSize, skip, viewExtent)
             ELSE next

\* getTiles(projection) for a configuration: the tiles, or the RangeError of range()
getTilesOf(tileSize, zoomRng, marginVal, skip, p) ==
    LET zFrac == geoScaleToZoom(p.w, tileSize)
        z == zoomOf(p.w, tileSize, zoomRng)
        maxTile == Pow2(z) - 1
        k == kOf(zFrac, z, tileSize)
        viewMin == viewMinOf(p)
        viewMax == viewMaxOf(p)
        viewExtent == Extent(viewMin, viewMax)
        c0 == loBound(viewMin[1], k, marginVal, maxTile)
        c1 == hiBound(viewMax[1], k, marginVal, maxTile)
        r0 == loBound(viewMin[2], k, marginVal, maxTile)
        r1 == hiBound(viewMax[2], k, marginVal, maxTile)
    IN  IF rangeThrows(c0, c1) \/ rangeThrows(r0, r1)
        THEN [status |-> "RangeError", tiles |-> <<>>]
        ELSE [status |-> "ok",
              tiles |-> rowsLoop(<<>>, 0, range(r0, r1), range(c0, c1),
                                 z, tileSize, skip, viewExtent)]

\* ------------------------------------------------------------------ inputs

Undefined == [undefined |-> TRUE]
Given(v) == [undefined |-> FALSE, v |-> v]

TileSizes == {DefaultTileSize, DocTileSize}
Margins == (0 - 1)..MaxMargin
ZoomMins == {0, 1}
ZoomMaxs == {1, NullIslandZoom}

\* the world at the integer zooms 0..MaxWorldZoom of the default tile size, two
\* worlds at a fractional zoom (1.5 and 2.5 default tiles wide), and the deep world
\* at the first zoom where null island is skipped
DeepWorld == DefaultTileSize * Pow2(NullIslandZoom)
ShallowWorlds ==
    {DefaultTileSize * Pow2(zz) : zz \in 0..MaxWorldZoom}
        \cup {3 * (DefaultTileSize \div 2), 5 * (DefaultTileSize \div 2)}

\* viewports along one axis, <<min, max>> in world pixels: the whole world, an inner
\* window, a single point, windows left and right of the world, one across its edge
ShallowSpans(w) ==
    { <<0, w>>, <<w \div 8, 3 * (w \div 8)>>, <<5 * (w \div 8), 5 * (w \div 8)>>,
      <<0 - (w \div 2), 0 - (w \div 8)>>, <<w + (w \div 8), w + (w \div 4)>>,
      <<0 - (w \div 8), w \div 4>> }

\* viewports around and away from the centre of the deep world
DeepSpans(w) ==
    { <<w \div 2 - 300, w \div 2 + 100>>, <<w \div 2 + 300, w \div 2 + 500>>,
      <<w \div 4, w \div 4 + 10>> }

\* a projection showing the span sx by sy of the world w, with dimensions from d
ProjectionOf(w, sx, sy, d) ==
    [ w |-> w,
      translate |-> <<w \div 2 - sx[1] + d, w \div 2 - sy[1] + d>>,
      dimensions |-> << <<d, d>>, <<sx[2] - sx[1] + d, sy[2] - sy[1] + d>> >> ]

\* windows that do not cover the world, shown over the full height of the world
PartSpans(w) == { <<w \div 8, 3 * (w \div 8)>>, <<0 - (w \div 8), w \div 4>> }

Projections ==
    UNION { { ProjectionOf(w, s, s, 0) : s \in ShallowSpans(w) } : w \in ShallowWorlds }
  \cup
    UNION { { ProjectionOf(w, s, <<0, w>>, 0) : s \in PartSpans(w) } : w \in ShallowWorlds }
  \cup
    { ProjectionOf(w, <<w \div 8, 3 * (w \div 8)>>, <<0, w>>, 16) : w \in ShallowWorlds }
  \cup
    { ProjectionOf(DeepWorld, s, s, 0) : s \in DeepSpans(DeepWorld) }
  \cup
    { ProjectionOf(DeepWorld, <<DeepWorld \div 2 - 300, DeepWorld \div 2 + 100>>,
                   <<DeepWorld \div 4, DeepWorld \div 4 + 10>>, 0) }

\* the projections of the object-level specification: the whole world at zoom 1,
\* a point of the world at zoom 2, a window at a fractional zoom, the deep centre
FewProjections ==
    { ProjectionOf(2 * DefaultTileSize, <<0, 2 * DefaultTileSize>>,
                   <<0, 2 * DefaultTileSize>>, 0),
      ProjectionOf(4 * DefaultTileSize, <<5 * (DefaultTileSize \div 2), 5 * (DefaultTileSize \div 2)>>,
                   <<0, 4 * DefaultTileSize>>, 0),
      ProjectionOf(3 * (DefaultTileSize \div 2), <<200, 250>>, <<200, 250>>, 0),
      ProjectionOf(DeepWorld, <<DeepWorld \div 2 - 300, DeepWorld \div 2 + 100>>,
                   <<DeepWorld \div 2 - 300, DeepWorld \div 2 + 100>>, 0) }

\* arguments of isNearNullIsland: the zooms up to MaxDeeper past the first skipped
\* one; the corners of the grid and the indices around its centre
NullZooms == 0..(NullIslandZoom + MaxDeeper)
NullIndices(z) ==
    {i \in (Pow2(z - 1) - Pow2(z - 6) - 1)..(Pow2(z - 1) + Pow2(z - 6) + 1) :
        0 <= i /\ i <= Pow2(z) - 1} \cup {0, Pow2(z) - 1}

NoProjection == [w |-> 0, translate |-> <<0, 0>>, dimensions |-> << <<0, 0>>, <<0, 0>> >>]
NoResult == [status |-> "none", tiles |-> <<>>]
This == [kind |-> "this"]
Value(v) == [kind |-> "value", value |-> v]

\* ------------------------------------------------------------------- state

\* private fields' defaults and constructor() {}
Init ==
    /\ _tileSize = DefaultTileSize
    /\ _zoomRange = <<0, DefaultMaxZoom>>
    /\ _margin = 0
    /\ _skipNullIsland = FALSE
    /\ projection = NoProjection
    /\ result = NoResult
    /\ repeat = FALSE
    /\ before = NoResult
    /\ op = "new"
    /\ arg = Undefined
    /\ ret = This

getTilesFrom_stale(inputs) ==
    \E p \in inputs :
        LET r == getTilesOf(_tileSize, _zoomRange, _margin, _skipNullIsland, p)
        IN  /\ result' = IF r.status = "ok" /\ result.status = "ok"
                         THEN [r EXCEPT !.tiles = result.tiles \o r.tiles]
                         ELSE r
            /\ repeat' = (op = "getTiles" /\ p = projection)
            /\ before' = IF op = "getTiles" /\ p = projection THEN result ELSE NoResult
            /\ projection' = p
            /\ op' = "getTiles"
            /\ arg' = p
            /\ UNCHANGED <<_tileSize, _zoomRange, _margin, _skipNullIsland, ret>>

\* getTiles(projection), the projection drawn from inputs
getTilesFrom(inputs) ==
    \E p \in inputs :
        /\ result' = getTilesOf(_tileSize, _zoomRange, _margin, _skipNullIsland, p)
        /\ repeat' = (op = "getTiles" /\ p = projection)
        /\ before' = IF op = "getTiles" /\ p = projection THEN result ELSE NoResult
        /\ projection' = p
        /\ op' = "getTiles"
        /\ arg' = p
        /\ UNCHANGED <<_tileSize, _zoomRange, _margin, _skipNullIsland, ret>>

\* tileSize(val?)
tileSize ==
    \E val \in {Undefined} \cup {Given(v) : v \in TileSizes} :
        /\ op' = "tileSize"
        /\ arg' = val
        /\ IF val = Undefined
           THEN ret' = Value(_tileSize) /\ UNCHANGED _tileSize
           ELSE _tileSize' = val.v /\ ret' = This
        /\ UNCHANGED <<_zoomRange, _margin, _skipNullIsland,
                       projection, result, repeat, before>>

zoomRange_keepMax ==
    \E min \in {Undefined} \cup {Given(v) : v \in ZoomMins},
       max \in {Undefined} \cup {Given(v) : v \in ZoomMaxs} :
        /\ (min = Undefined => max = Undefined)
        /\ (min # Undefined /\ max # Undefined => min.v <= max.v)
        /\ op' = "zoomRange"
        /\ arg' = <<min, max>>
        /\ IF min = Undefined
           THEN ret' = Value(_zoomRange) /\ UNCHANGED _zoomRange
           ELSE /\ _zoomRange' = <<min.v, IF max = Undefined THEN _zoomRange[2] ELSE max.v>>
                /\ ret' = This
        /\ UNCHANGED <<_tileSize, _margin, _skipNullIsland,
                       projection, result, repeat, before>>

\* zoomRange(min?, max?), called with min <= max
zoomRange ==
    \E min \in {Undefined} \cup {Given(v) : v \in ZoomMins},
       max \in {Undefined} \cup {Given(v) : v \in ZoomMaxs} :
        /\ (min = Undefined => max = Undefined)
        /\ (min # Undefined /\ max # Undefined => min.v <= max.v)
        /\ op' = "zoomRange"
        /\ arg' = <<min, max>>
        /\ IF min = Undefined
           THEN ret' = Value(_zoomRange) /\ UNCHANGED _zoomRange
           ELSE /\ _zoomRange' = <<min.v, IF max = Undefined THEN min.v ELSE max.v>>
                /\ ret' = This
        /\ UNCHANGED <<_tileSize, _margin, _skipNullIsland,
                       projection, result, repeat, before>>

\* margin(val?)
margin ==
    \E val \in {Undefined} \cup {Given(v) : v \in Margins} :
        /\ op' = "margin"
        /\ arg' = val
        /\ IF val = Undefined
           THEN ret' = Value(_margin) /\ UNCHANGED _margin
           ELSE _margin' = val.v /\ ret' = This
        /\ UNCHANGED <<_tileSize, _zoomRange, _skipNullIsland,
                       projection, result, repeat, before>>

\* skipNullIsland(val?)
skipNullIsland ==
    \E val \in {Undefined} \cup {Given(v) : v \in BOOLEAN} :
        /\ op' = "skipNullIsland"
        /\ arg' = val
        /\ IF val = Undefined
           THEN ret' = Value(_skipNullIsland) /\ UNCHANGED _skipNullIsland
           ELSE _skipNullIsland' = val.v /\ ret' = This
        /\ UNCHANGED <<_tileSize, _zoomRange, _margin,
                       projection, result, repeat, before>>

\* a call of the static isNearNullIsland(x, y, z)
callIsNearNullIsland ==
    \E z \in NullZooms :
        \E x \in NullIndices(z), y \in NullIndices(z) :
            /\ op' = "isNearNullIsland"
            /\ arg' = <<x, y, z>>
            /\ ret' = Value(isNearNullIsland(x, y, z))
            /\ UNCHANGED <<_tileSize, _zoomRange, _margin, _skipNullIsland,
                           projection, result, repeat, before>>

\* the Tiler as an object: accessors and getTiles in any order
getTilesFew == getTilesFrom(FewProjections)
Next == getTilesFew \/ tileSize \/ zoomRange \/ margin \/ skipNullIsland
Spec == Init /\ [][Next]_vars

\* getTiles as a function of (configuration, projection): a Tiler configured by a
\* chain of setters, new Tiler().tileSize(a).zoomRange(b, c).margin(d).skipNullIsland(e),
\* then asked for the tiles of every projection
InitConfigured ==
    /\ _tileSize \in TileSizes
    /\ _zoomRange \in {<<0, DefaultMaxZoom>>}
          \cup {<<a, a>> : a \in ZoomMins}
          \cup {<<a, b>> : a \in ZoomMins, b \in ZoomMaxs}
    /\ _zoomRange[1] <= _zoomRange[2]
    /\ _margin \in Margins
    /\ _skipNullIsland \in BOOLEAN
    /\ projection = NoProjection
    /\ result = NoResult
    /\ repeat = FALSE
    /\ before = NoResult
    /\ op = "skipNullIsland"
    /\ arg = Given(_skipNullIsland)
    /\ ret = This

getTiles == getTilesFrom(Projections)
NextTiles == getTiles
SpecTiles == InitConfigured /\ [][NextTiles]_vars

\* the static function alone
NextNull == callIsNearNullIsland
SpecNull == Init /\ [][NextNull]_vars

\* ------------------------------------------------------------------ claims

\* the configuration has not changed since the last getTiles call, which returned
Returned == op = "getTiles" /\ result.status = "ok"

XyzOf(tiles) == {tiles[i].xyz : i \in 1..Len(tiles)}

\* the projection whose viewport is the whole world at zoom z of the tile size
WholeWorld(z, tileSizeVal) ==
    [ w |-> tileSizeVal * Pow2(z),
      translate |-> <<(Pow2(z) * tileSizeVal) \div 2, (Pow2(z) * tileSizeVal) \div 2>>,
      dimensions |-> << <<0, 0>>, <<Pow2(z) * tileSizeVal, Pow2(z) * tileSizeVal>> >> ]

\* C1: with margin 0 and skipNullIsland false, a viewport that is exactly the whole
\* world at an integer zoom z of the zoom range yields the 4^z tiles (x, y, z),
\* 0 <= x, y <= 2^z - 1, each once and each visible; at zoom 1 of tile size 256
\* these are 0,0,1 / 1,0,1 / 0,1,1 / 1,1,1
C1_WholeWorld ==
    \A z \in 0..(MaxWorldZoom + 1) :
        ( /\ op = "getTiles"
          /\ _margin = 0
          /\ ~_skipNullIsland
          /\ _zoomRange[1] <= z /\ z <= _zoomRange[2]
          /\ projection = WholeWorld(z, _tileSize) )
        => /\ result.status = "ok"
           /\ Len(result.tiles) = Pow2(2 * z)
           /\ XyzOf(result.tiles) = {<<x, y, z>> : x \in 0..(Pow2(z) - 1), y \in 0..(Pow2(z) - 1)}
           /\ \A i \in 1..Len(result.tiles) : result.tiles[i].isVisible
           /\ (z = 1 /\ _tileSize = 256
                 => XyzOf(result.tiles) = {<<0, 0, 1>>, <<1, 0, 1>>, <<0, 1, 1>>, <<1, 1, 1>>})

C1_Witness ==
    /\ op = "getTiles"
    /\ _margin = 0
    /\ ~_skipNullIsland
    /\ _zoomRange = <<0, DefaultMaxZoom>>
    /\ projection = WholeWorld(2, _tileSize)
    /\ Len(result.tiles) = 16

\* row-major enumeration order of two tiles: rows ascending, columns ascending in a row
EnumeratedBefore(s, t) ==
    \/ s.xyz[2] < t.xyz[2]
    \/ s.xyz[2] = t.xyz[2] /\ s.xyz[1] < t.xyz[1]

\* C2: in a result no non-visible tile precedes a visible one; the visible tiles
\* stand in reverse enumeration order, the non-visible ones after them in
\* enumeration order
C2_VisibleFirst ==
    Returned =>
        \A i, j \in 1..Len(result.tiles) :
            i < j =>
                LET s == result.tiles[i]
                    t == result.tiles[j]
                IN  /\ ~(~s.isVisible /\ t.isVisible)
                    /\ (s.isVisible /\ t.isVisible => EnumeratedBefore(t, s))
                    /\ (~s.isVisible /\ ~t.isVisible => EnumeratedBefore(s, t))

C2_Witness ==
    /\ Returned
    /\ Cardinality({i \in 1..Len(result.tiles) : result.tiles[i].isVisible}) >= 4
    /\ Cardinality({i \in 1..Len(result.tiles) : ~result.tiles[i].isVisible}) >= 4
    /\ \E i, j \in 1..Len(result.tiles) :
          /\ result.tiles[i].isVisible /\ result.tiles[j].isVisible
          /\ result.tiles[i].xyz[2] # result.tiles[j].xyz[2]

\* C3: getTiles never raises, whatever the configuration (a negative margin
\* included) and the projection: it returns a possibly empty sequence
C3_NeverRaises == op = "getTiles" => result.status = "ok"

\* C4: isNearNullIsland(x, y, z) is false when z < 7 and, when z >= 7, true exactly
\* when x and y both lie in [2^(z-1) - 2^(z-7), 2^(z-1) + 2^(z-7) - 1]; at z = 7 it
\* is true for (63,63), (63,64), (64,63), (64,64) only, and (127,127,8) is near
C4_NearNullIsland ==
    op = "isNearNullIsland" =>
        LET x == arg[1]
            y == arg[2]
            z == arg[3]
            lo == Pow2(z - 1) - Pow2(z - 7)
            hi == Pow2(z - 1) + Pow2(z - 7) - 1
        IN  /\ ret.kind = "value"
            /\ (z < 7 => ret.value = FALSE)
            /\ (z >= 7 => ret.value = (lo <= x /\ x <= hi /\ lo <= y /\ y <= hi))
            /\ (z = 7 => ret.value = (x \in {63, 64} /\ y \in {63, 64}))
            /\ (arg = <<63, 65, 7>> => ret.value = FALSE)
            /\ (arg = <<127, 127, 8>> => ret.value = TRUE)

C4_Witness ==
    /\ op = "isNearNullIsland"
    /\ arg = <<127, 127, 8>>
    /\ ret = Value(TRUE)

\* n is the integer nearest to log2(num / den): n - 1/2 <= log2(num / den) < n + 1/2,
\* squared and cleared of negative powers
NearestToLog2(n, num, den) ==
    IF n >= 0
    THEN /\ den * den * Pow2(2 * n) <= 2 * num * num
         /\ 2 * num * num < den * den * Pow2(2 * n + 2)
    ELSE /\ den * den <= 2 * num * num * Pow2(-2 * n)
         /\ 2 * num * num * Pow2(-2 * n - 2) < den * den

\* C5: every tile of a result has the zoom round(scaleToZoom(scale, tileSize))
\* clamped into the zoom range [min, max]: max when the rounded zoom is above it,
\* min when it is below, the rounded zoom itself otherwise
C5_ZoomClamped ==
    Returned /\ _zoomRange[1] <= _zoomRange[2] =>
        LET g == Gcd(projection.w, _tileSize)
        IN  \A i \in 1..Len(result.tiles) :
              \A n \in (0 - 4)..(NullIslandZoom + 4) :
                NearestToLog2(n, projection.w \div g, _tileSize \div g) =>
                    LET z == result.tiles[i].xyz[3]
                    IN  /\ _zoomRange[1] <= z /\ z <= _zoomRange[2]
                        /\ (n > _zoomRange[2] => z = _zoomRange[2])
                        /\ (n < _zoomRange[1] => z = _zoomRange[1])
                        /\ (_zoomRange[1] <= n /\ n <= _zoomRange[2] => z = n)
                        /\ z = result.tiles[1].xyz[3]

\* a zoom of 2 clamped down to the maximum 1
C5_Witness ==
    /\ Returned
    /\ _tileSize = DefaultTileSize
    /\ projection.w = 4 * DefaultTileSize
    /\ _zoomRange = <<0, 1>>
    /\ Len(result.tiles) >= 2
    /\ result.tiles[1].xyz[3] = 1

\* C6: for a margin m >= 0, the same projection under the same configuration with
\* margin m + 1 yields at least as many tiles
C6_MarginMonotone ==
    Returned /\ _margin >= 0 =>
        LET more == getTilesOf(_tileSize, _zoomRange, _margin + 1, _skipNullIsland, projection)
        IN  /\ more.status = "ok"
            /\ Len(more.tiles) >= Len(result.tiles)

\* a margin whose increase adds tiles
C6_Witness ==
    /\ Returned
    /\ _margin >= 1
    /\ Len(result.tiles) >= 1
    /\ Len(getTilesOf(_tileSize, _zoomRange, _margin + 1, _skipNullIsland, projection).tiles)
          > Len(result.tiles)

NotNear(t) == ~isNearNullIsland(t.xyz[1], t.xyz[2], t.xyz[3])

\* the number of (column, row) pairs the loops pass over
Candidates(tileSizeVal, zoomRng, marginVal, p) ==
    LET z == zoomOf(p.w, tileSizeVal, zoomRng)
        k == kOf(geoScaleToZoom(p.w, tileSizeVal), z, tileSizeVal)
        lo == viewMinOf(p)
        hi == viewMaxOf(p)
    IN  (1 + hiBound(hi[1], k, marginVal, Pow2(z) - 1) - loBound(lo[1], k, marginVal, Pow2(z) - 1))
      * (1 + hiBound(hi[2], k, marginVal, Pow2(z) - 1) - loBound(lo[2], k, marginVal, Pow2(z) - 1))

\* C7: with skipNullIsland true the result holds no tile near null island and is the
\* result for skipNullIsland false with exactly those tiles removed, the others
\* unchanged and in the same order; with skipNullIsland false no candidate is dropped
C7_SkipNullIsland ==
    Returned =>
        LET all == getTilesOf(_tileSize, _zoomRange, _margin, FALSE, projection)
        IN  IF _skipNullIsland
            THEN /\ \A i \in 1..Len(result.tiles) : NotNear(result.tiles[i])
                 /\ result.tiles = SelectSeq(all.tiles, NotNear)
            ELSE Len(result.tiles) = Candidates(_tileSize, _zoomRange, _margin, projection)

\* tiles near null island were among the candidates and were skipped
C7_Witness ==
    /\ Returned
    /\ _skipNullIsland
    /\ Len(result.tiles) >= 1
    /\ Len(result.tiles) + 4 = Candidates(_tileSize, _zoomRange, _margin, projection)

\* what a call of one accessor does: without an argument it returns its field and
\* changes nothing; with one it sets its field to `set`, leaves `others` alone and
\* returns the Tiler
AccessorStep(name, isGetter, field, fieldNext, set, othersUnchanged) ==
    op' = name =>
        IF isGetter
        THEN ret' = Value(field) /\ fieldNext = field /\ othersUnchanged
        ELSE fieldNext = set /\ othersUnchanged /\ ret' = This

C8_Step ==
    /\ (op = "new" =>
            /\ _tileSize = 256 /\ _zoomRange = <<0, 24>>
            /\ _margin = 0 /\ _skipNullIsland = FALSE)
    /\ AccessorStep("tileSize", arg' = Undefined, _tileSize, _tileSize', arg'.v,
                    UNCHANGED <<_zoomRange, _margin, _skipNullIsland>>)
    /\ AccessorStep("zoomRange", arg'[1] = Undefined, _zoomRange, _zoomRange',
                    IF arg'[2] = Undefined THEN <<arg'[1].v, arg'[1].v>>
                                           ELSE <<arg'[1].v, arg'[2].v>>,
                    UNCHANGED <<_tileSize, _margin, _skipNullIsland>>)
    /\ AccessorStep("margin", arg' = Undefined, _margin, _margin', arg'.v,
                    UNCHANGED <<_tileSize, _zoomRange, _skipNullIsland>>)
    /\ AccessorStep("skipNullIsland", arg' = Undefined, _skipNullIsland, _skipNullIsland',
                    arg'.v, UNCHANGED <<_tileSize, _zoomRange, _margin>>)
    /\ (op' = "getTiles" => UNCHANGED config)
    /\ (op' # "getTiles" => result' = result)

\* C8: a new Tiler has tile size 256, zoom range [0, 24], margin 0, skipNullIsland
\* false; a setter sets its own field to its argument (zoomRange(v) to [v, v]) and
\* leaves the other three alone, a getter returns its field as it stands, getTiles
\* leaves the four fields alone, and no accessor changes a result already returned
C8_ConfigFrame == [][C8_Step]_vars

\* a getter answering after setters of the other fields and a getTiles call
C8_Witness ==
    /\ op = "tileSize"
    /\ arg = Undefined
    /\ ret = Value(DocTileSize)
    /\ _zoomRange = <<1, 1>>
    /\ _margin = 1
    /\ _skipNullIsland
    /\ result.status = "ok"
    /\ Len(result.tiles) >= 1

C10_NonVisibleOnlyInMargin ==
    Returned =>
        LET z == zoomOf(projection.w, _tileSize, _zoomRange)
            k == kOf(geoScaleToZoom(projection.w, _tileSize), z, _tileSize)
            lo == viewMinOf(projection)
            hi == viewMaxOf(projection)
        IN  \A i \in 1..Len(result.tiles) :
                LET t == result.tiles[i]
                IN  ~t.isVisible =>
                        /\ _margin > 0
                        /\ \/ t.xyz[1] < floorOver(lo[1], k) \/ t.xyz[1] > floorOver(hi[1], k)
                           \/ t.xyz[2] < floorOver(lo[2], k) \/ t.xyz[2] > floorOver(hi[2], k)


\* the scale is that of the integer zoom z of the zoom range, so that k = tileSize
AtIntegerZoom(z) ==
    /\ projection.w = _tileSize * Pow2(z)
    /\ _zoomRange[1] <= z /\ z <= _zoomRange[2]

\* the tile index i, [i * tileSize, (i + 1) * tileSize] in pixels, meets the
\* viewport's [lo, hi] on one axis, a shared boundary counting on both sides
MeetsInclusive(i, lo, hi) == i * _tileSize <= hi /\ lo <= (i + 1) * _tileSize

\* as MeetsInclusive, but a tile that only touches the viewport's minimum with its
\* far edge does not count
MeetsPastMin(i, lo, hi) == i * _tileSize <= hi /\ lo < (i + 1) * _tileSize

\* the claim as stated: at an integer zoom, without null-island skipping and with
\* a margin >= 0, every tile whose extent meets the viewport, boundaries included,
\* is in the result
C11_AllTouchingTilesPresent ==
    \A z \in 0..NullIslandZoom :
        (Returned /\ AtIntegerZoom(z) /\ ~_skipNullIsland /\ _margin >= 0) =>
            LET lo == viewMinOf(projection)
                hi == viewMaxOf(projection)
                got == XyzOf(result.tiles)
            IN  \A x, y \in 0..(Pow2(z) - 1) :
                    MeetsInclusive(x, lo[1], hi[1]) /\ MeetsInclusive(y, lo[2], hi[2])
                        => <<x, y, z>> \in got

\* C11 (amended): at an integer zoom z of the zoom range, without null-island
\* skipping, with a margin >= 0 and a viewport with min <= max, every tile (x, y),
\* 0 <= x, y <= 2^z - 1, with x * tileSize <= viewMaxX and viewMinX < (x + 1) * tileSize
\* (and the same for y) is in the result
C11_CoveringTilesPresent ==
    \A z \in 0..NullIslandZoom :
        (op = "getTiles" /\ AtIntegerZoom(z) /\ ~_skipNullIsland /\ _margin >= 0) =>
            LET lo == viewMinOf(projection)
                hi == viewMaxOf(projection)
                got == XyzOf(result.tiles)
            IN  /\ result.status = "ok"
                /\ \A x, y \in 0..(Pow2(z) - 1) :
                      MeetsPastMin(x, lo[1], hi[1]) /\ MeetsPastMin(y, lo[2], hi[2])
                          => <<x, y, z>> \in got

\* a viewport whose minimum lies on the boundary between two tiles: the tile past
\* the boundary is returned, the one before it is not
C11_Witness ==
    /\ Returned
    /\ _margin = 0
    /\ ~_skipNullIsland
    /\ \E z \in 1..NullIslandZoom :
          /\ AtIntegerZoom(z)
          /\ LET lo == viewMinOf(projection)
                 x == lo[1] \div _tileSize
                 y == lo[2] \div _tileSize
             IN  /\ lo[1] % _tileSize = 0
                 /\ 1 <= x /\ x <= Pow2(z) - 1
                 /\ 0 <= y /\ y <= Pow2(z) - 1
                 /\ <<x, y, z>> \in XyzOf(result.tiles)
                 /\ <<x - 1, y, z>> \notin XyzOf(result.tiles)


\* C12: every returned tile has integer indices 0 <= x, y <= 2^z - 1, the id "x,y,z"
\* of its xyz triple, the pixel extent [x * tileSize, y * tileSize] to
\* [(x + 1) * tileSize, (y + 1) * tileSize], and no triple occurs twice in a result
C12_WellFormedTiles ==
    Returned =>
        /\ \A i \in 1..Len(result.tiles) :
              LET t == result.tiles[i]
                  x == t.xyz[1]
                  y == t.xyz[2]
                  z == t.xyz[3]
              IN  /\ x \in Int /\ y \in Int /\ z \in Int
                  /\ z >= 0
                  /\ 0 <= x /\ x <= Pow2(z) - 1
                  /\ 0 <= y /\ y <= Pow2(z) - 1
                  /\ t.id = ToString(x) \o "," \o ToString(y) \o "," \o ToString(z)
                  /\ t.pxExtent = << <<x * _tileSize, y * _tileSize>>,
                                     <<x * _tileSize + _tileSize, y * _tileSize + _tileSize>> >>
        /\ \A i, j \in 1..Len(result.tiles) :
              result.tiles[i].xyz = result.tiles[j].xyz => i = j

\* a result around the centre of the deep world, and one clamped to the last column
C12_Witness ==
    /\ Returned
    /\ Len(result.tiles) >= 4
    /\ \E i \in 1..Len(result.tiles) :
          /\ result.tiles[i].id = "64,63,7"
          /\ result.tiles[i].xyz = <<64, 63, 7>>
          /\ result.tiles[i].pxExtent = << <<16384, 16128>>, <<16640, 16384>> >>

====
